---- MODULE Spec2Model ----
(***************************************************************************)
(* A model of Data_Vault.py. Class DataVault, the storage and versioning  *)
(* engine: the in-memory catalog, the persisted metadata document, the    *)
(* content store under files/, and the operations add_file,               *)
(* rollback_version, export_file and delete_file, as whole calls, as      *)
(* calls an I/O fault interrupts, and as sequences of steps between which *)
(* the process may be killed or another caller may run. Class             *)
(* DataVaultGUI: the file list and the selection made from it.            *)
(***************************************************************************)
EXTENDS Integers, Sequences, FiniteSets, TLC

\* ------------------------------------------------------------------ bounds
\* Number of add_file calls that read the clock (one timestamp each).
MaxAdds == 3
\* Number of I/O faults in one behaviour of SpecFault.
MaxFaults == 1
\* Number of characters of a file name shown in the GUI.
MaxNameLen == 3

\* File names (Path(source_path).name).
Names == {"a", "b"}
\* The threads that may call into one DataVault object.
Callers == {1, 2}
\* The contents a file may hold, the empty byte sequence included.
Contents == {<<>>, <<1, 2>>}
\* The version indexes a caller may pass to rollback_version.
Indexes == -1..MaxAdds
\* The I/O faults that can interrupt a call; "none" stands for a call that
\* none interrupts.
SaveFaults == {"save_open", "save_write"}
Faults == {"copy", "rmtree"} \cup SaveFaults

\* ------------------------------------------------------------------ paths
\* A path outside the vault whose last component is name.
ExtPath(name) == [root |-> "ext", name |-> name, v |-> 0]
\* files/<file_name>/v<version_num>/<file_name>, relative to the vault root.
StorePath(file_name, version_num) ==
  [root |-> "files", name |-> file_name, v |-> version_num]
ExtPaths == {ExtPath(n) : n \in Names}
NoPath == [root |-> "", name |-> "", v |-> 0]

VARIABLES
  metadata,      \* self.metadata: the entries, in dict insertion order
  metadata_file, \* the document metadata.json on disk: the members it lists
  fs,            \* the regular files that exist: path -> bytes
  dirs,          \* the version directories files/<name>/v<n> that exist
  clock,         \* the number of timestamps handed out by datetime.now()
  result,        \* what the last call returned or raised
  added,         \* history: added[t] = the file name of the add stamped t
  origin,        \* history: the bytes the source held when a record's add read it
  nadds,         \* history: successful add_file calls since the entry was created
  deleted,       \* history: the name's last successful call was delete_file
  began,         \* history: how the name stood when its last successful add began
  faults,        \* the number of I/O faults so far
  up,            \* a DataVault object exists (its constructor returned)
  pc,            \* per caller: the call in progress, its position and locals
                 \* (alone is history: no other call has overlapped this one)
  gui            \* DataVaultGUI: the list box rows and self.selected_file

vars == <<metadata, metadata_file, fs, dirs, clock, result, added, origin, nadds,
          deleted, began, faults, up, pc, gui>>

\* A caller that is in no call.
Idle == [op |-> "", at |-> "idle", name |-> "", src |-> NoPath, bytes |-> <<>>,
         num |-> 0, timestamp |-> 0, alone |-> TRUE]
\* The window before any click: the list box of an empty vault, no row
\* selected, self.selected_file None (the empty text stands for None: the
\* handlers test "not self.selected_file", which both satisfy).
NoGui == [listbox |-> <<>>, row |-> 0, selected_file |-> <<>>]

\* ------------------------------------------------------------------ dict
\* self.metadata is a dict: a sequence of entries with distinct names.
Has(m, file_name) == \E i \in 1..Len(m) : m[i].name = file_name
IndexOf(m, file_name) == CHOOSE i \in 1..Len(m) : m[i].name = file_name
Entry(m, file_name) == m[IndexOf(m, file_name)]
\* Mutant of DelEntry: the entry is never taken out of the dict.
DelEntryKept(m, file_name) == m

\* m[file_name] = e for a key that is present keeps the key's position.
SetEntry(m, file_name, e) == [m EXCEPT ![IndexOf(m, file_name)] = e]
\* del m[file_name]
DelEntry(m, file_name) ==
  LET i == IndexOf(m, file_name)
  IN SubSeq(m, 1, i - 1) \o SubSeq(m, i + 1, Len(m))

\* ------------------------------------------------------------------ helpers
RECURSIVE Digest(_, _)
Digest(h, bytes) ==
  IF bytes = <<>> THEN h
  ELSE Digest((h * 31 + Head(bytes) + 1) % 65536, Tail(bytes))
\* calculate_hash: a digest of the bytes, truncated; here a 16-bit rolling digest.
calculate_hash(bytes) == Digest(7, bytes)

\* The read-only calls, on the catalog m (self.metadata).
get_file_list(m) == [i \in 1..Len(m) |-> m[i].name]
get_versions(m, file_name) ==
  IF Has(m, file_name) THEN Entry(m, file_name).versions ELSE <<>>
get_current_version_index(m, file_name) ==
  IF Has(m, file_name) THEN Entry(m, file_name).current_version ELSE -1

\* json.dump(self.metadata, f, indent=2): one member per dict key, in the
\* dict's iteration order (no sort_keys); the member's value is the entry
\* object {name, versions, current_version}, or whatever else the key holds.
json_dump(m) ==
  [i \in 1..Len(m) |->
     [key |-> m[i].name,
      value |-> IF "versions" \in DOMAIN m[i]
                THEN [name |-> m[i].name, versions |-> m[i].versions,
                      current_version |-> m[i].current_version]
                ELSE [other |-> m[i].other]]]

\* json.load(f) on a document that is a JSON object: a dict with the members'
\* keys in document order, each holding its member's value.
json_load(doc) ==
  [i \in 1..Len(doc) |->
     IF "versions" \in DOMAIN doc[i].value
     THEN [name |-> doc[i].key, versions |-> doc[i].value.versions,
           current_version |-> doc[i].value.current_version]
     ELSE [name |-> doc[i].key, other |-> doc[i].value.other]]

\* load_metadata: the catalog a DataVault constructed now would hold.
load_metadata ==
  IF metadata_file.kind = "absent" THEN <<>> ELSE json_load(metadata_file.doc)

\* save_metadata: open(..., 'w') truncates the document, json.dump writes it.
\* A fault at open leaves the document alone; a fault while writing leaves a
\* truncated one.
save_metadata(m, fault) ==
  CASE fault = "save_open" -> metadata_file
    [] fault = "save_write" -> [kind |-> "truncated", doc |-> <<>>]
    [] OTHER -> [kind |-> "json", doc |-> json_dump(m)]

SaveFails(fault) == fault \in SaveFaults

\* What the last call handed back: the pair (ok, msg), or an exception
\* (raised). name, num and path are the values the message text carries:
\* "File '<name>' added as version <num>", "Rolled back to version <num>",
\* "File exported to <path>", "File '<name>' deleted"; a failure message
\* carries none.
Returned(op, ok, msg, file_name, num, path) ==
  [op |-> op, ok |-> ok, msg |-> msg, name |-> file_name, num |-> num,
   path |-> path, raised |-> FALSE]
Failed(op, msg) == Returned(op, FALSE, msg, "", 0, NoPath)
Raised(op, exception) ==
  [op |-> op, ok |-> FALSE, msg |-> exception, name |-> "", num |-> 0,
   path |-> NoPath, raised |-> TRUE]

\* Path.exists() for a regular file.
exists(f, p) == p \in DOMAIN f

\* list[i] as Python evaluates it: a negative i counts from the end.
PyValid(seq, i) == -Len(seq) <= i /\ i < Len(seq)
PyIndex(seq, i) == IF i >= 0 THEN seq[i + 1] ELSE seq[Len(seq) + i + 1]

\* The stored files and version directories of one file name (files/<name>/).
TreeFiles(f, file_name) ==
  {p \in DOMAIN f : p.root = "files" /\ p.name = file_name}
TreeDirs(d, file_name) == {p \in d : p.name = file_name}
Restrict(f, S) == [p \in S |-> f[p]]
WriteFile(f, p, bytes) == [q \in DOMAIN f \cup {p} |-> IF q = p THEN bytes ELSE f[q]]

\* ------------------------------------------------------------------ add_file
\* Mutant of EnsureEntry: the new entry is put in front of the others.
EnsureEntryFirst(m, file_name) ==
  IF Has(m, file_name) THEN m
  ELSE <<[name |-> file_name, versions |-> <<>>, current_version |-> 0]>> \o m

\* Lines 38-43: a name not yet in the catalog gets an empty entry first.
EnsureEntry(m, file_name) ==
  IF Has(m, file_name) THEN m
  ELSE Append(m, [name |-> file_name, versions |-> <<>>, current_version |-> 0])

\* Mutant of version_num: the next number taken from the list length alone,
\* without the + 1.
version_num_zero_based(m, file_name) == Len(Entry(m, file_name).versions)

\* Mutant of version_num: the next number taken from the pointer.
version_num_from_pointer(m, file_name) == Entry(m, file_name).current_version + 2

\* Mutant of version_num: the number of the newest record is taken again.
version_num_of_newest(m, file_name) ==
  IF Entry(m, file_name).versions = <<>> THEN 1
  ELSE Len(Entry(m, file_name).versions)

\* Line 45.
version_num(m, file_name) == Len(Entry(m, file_name).versions) + 1

\* Lines 52-58.
version_info(num, timestamp, bytes, dest) ==
  [version |-> num, timestamp |-> timestamp, size |-> Len(bytes),
   hash |-> calculate_hash(bytes), path |-> dest]

\* Mutant of AppendVersion: the records after the pointer are dropped before
\* the new one is appended.
AppendVersionAtPointer(m, file_name, info, num) ==
  SetEntry(m, file_name,
    [Entry(m, file_name) EXCEPT
       !.versions =
         Append(IF Entry(m, file_name).current_version + 1 < Len(@)
                THEN SubSeq(@, 1, Entry(m, file_name).current_version + 1)
                ELSE @, info),
       !.current_version = num - 1])

\* Lines 60-61.
AppendVersion(m, file_name, info, num) ==
  SetEntry(m, file_name,
    [Entry(m, file_name) EXCEPT !.versions = Append(@, info),
                                !.current_version = num - 1])

\* History only: how file_name stands in catalog m before an add.
Standing(m, del, file_name) ==
  IF ~Has(m, file_name) THEN (IF del[file_name] THEN "deleted" ELSE "absent")
  ELSE IF Entry(m, file_name).current_version = Len(Entry(m, file_name).versions) - 1
       THEN "newest" ELSE "older"

\* Mutant of add_file_missing: the entry is created before the source is checked.
add_file_missing_creates(source_path) ==
  /\ result' = Failed("add_file", "File does not exist")
  /\ metadata' = EnsureEntry(metadata, source_path.name)
  /\ UNCHANGED <<metadata_file, fs, dirs, clock, added, origin, nadds, deleted, began>>

\* Lines 30-32: the source path does not exist.
add_file_missing(source_path) ==
  /\ result' = Failed("add_file", "File does not exist")
  /\ UNCHANGED <<metadata, metadata_file, fs, dirs, clock, added, origin, nadds, deleted, began>>

\* Lines 34-64: the source exists.
add_file_copy(source_path, fault) ==
  LET file_name == source_path.name
      bytes == fs[source_path]
      timestamp == clock + 1
      m1 == EnsureEntry(metadata, file_name)
      num == version_num(m1, file_name)
      dest == StorePath(file_name, num)
      info == version_info(num, timestamp, bytes, dest)
      m2 == AppendVersion(m1, file_name, info, num)
  IN /\ clock < MaxAdds
     /\ clock' = timestamp
     /\ added' = Append(added, file_name)
     /\ dirs' = dirs \cup {dest}
     /\ IF fault = "copy" \/ source_path = dest
        THEN \* shutil.copy2 raised (a fault, or SameFileError): lines 52-64 do not run
             /\ metadata' = m1
             /\ \/ fs' = fs
                \/ source_path # dest /\ fs' = WriteFile(fs, dest, <<>>)
             /\ UNCHANGED <<metadata_file, origin, nadds, deleted, began>>
             /\ result' = Raised("add_file", "copy2")
        ELSE /\ fs' = WriteFile(fs, dest, bytes)
             /\ origin' = WriteFile(origin, dest, bytes)
             /\ metadata' = m2
             /\ metadata_file' = save_metadata(m2, fault)
             /\ IF SaveFails(fault)
                THEN /\ result' = Raised("add_file", "save_metadata")
                     /\ UNCHANGED <<nadds, deleted, began>>
                ELSE /\ result' = Returned("add_file", TRUE, "added as version",
                                           file_name, num, NoPath)
                     /\ nadds' = [nadds EXCEPT ![file_name] = @ + 1]
                     /\ deleted' = [deleted EXCEPT ![file_name] = FALSE]
                     /\ began' = [began EXCEPT ![file_name] =
                                    Standing(metadata, deleted, file_name)]

add_file(source_path, fault) ==
  IF ~exists(fs, source_path)
  THEN add_file_missing(source_path)
  ELSE add_file_copy(source_path, fault)

\* ------------------------------------------------------------------ rollback
\* Mutant of IndexInRange: the upper bound is off by one.
IndexInRangeInclusive(versions, version_index) ==
  ~(version_index < 0 \/ version_index > Len(versions))

\* Line 91, negated: the index is one of the entry's versions.
IndexInRange(versions, version_index) ==
  ~(version_index < 0 \/ version_index >= Len(versions))

\* Mutant of SetCurrent: the records after the chosen one are discarded.
SetCurrentTruncating(m, file_name, version_index) ==
  SetEntry(m, file_name,
    [Entry(m, file_name) EXCEPT
       !.versions = SubSeq(@, 1, version_index + 1),
       !.current_version = version_index])

\* Line 94.
SetCurrent(m, file_name, version_index) ==
  SetEntry(m, file_name,
    [Entry(m, file_name) EXCEPT !.current_version = version_index])

rollback_version(file_name, version_index, fault) ==
  IF ~Has(metadata, file_name)
  THEN /\ result' = Failed("rollback_version", "File not found")
       /\ UNCHANGED <<metadata, metadata_file, fs, dirs, clock, added, origin, nadds, deleted, began>>
  ELSE IF ~IndexInRange(Entry(metadata, file_name).versions, version_index)
  THEN /\ result' = Failed("rollback_version", "Invalid version index")
       /\ UNCHANGED <<metadata, metadata_file, fs, dirs, clock, added, origin, nadds, deleted, began>>
  ELSE LET m1 == SetCurrent(metadata, file_name, version_index)
       IN /\ metadata' = m1
          /\ metadata_file' = save_metadata(m1, fault)
          /\ result' = IF SaveFails(fault)
                       THEN Raised("rollback_version", "save_metadata")
                       ELSE Returned("rollback_version", TRUE,
                                     "Rolled back to version", "",
                                     version_index + 1, NoPath)
          /\ UNCHANGED <<fs, dirs, clock, added, origin, nadds, deleted, began>>

\* ------------------------------------------------------------------ export
\* Mutant of CurrentRecord: the newest record, whatever the pointer says.
LatestRecord(e) == PyIndex(e.versions, -1)

\* Lines 102-103: the record the pointer selects.
CurrentRecord(e) == PyIndex(e.versions, e.current_version)

\* The parent directory of a destination exists (a path outside the vault
\* always has one).
ParentExists(d, p) == p.root # "files" \/ p \in d

export_file(file_name, dest_path, fault) ==
  /\ UNCHANGED <<metadata, metadata_file, dirs, clock, added, origin, nadds, deleted, began>>
  /\ IF ~Has(metadata, file_name)
     THEN /\ result' = Failed("export_file", "File not found")
          /\ fs' = fs
     ELSE IF ~PyValid(Entry(metadata, file_name).versions,
                      Entry(metadata, file_name).current_version)
     THEN /\ result' = Raised("export_file", "IndexError")
          /\ fs' = fs
     ELSE LET source == CurrentRecord(Entry(metadata, file_name)).path
          IN IF ~exists(fs, source)
             THEN /\ result' = Failed("export_file", "Source file not found")
                  /\ fs' = fs
             ELSE IF source = dest_path \/ ~ParentExists(dirs, dest_path)
             THEN /\ result' = Raised("export_file", "copy2")
                  /\ fs' = fs
             ELSE IF fault = "copy"
             THEN /\ result' = Raised("export_file", "copy2")
                  /\ \/ fs' = fs
                     \/ fs' = WriteFile(fs, dest_path, <<>>)
             ELSE /\ result' = Returned("export_file", TRUE, "File exported to",
                                        "", 0, dest_path)
                  /\ fs' = WriteFile(fs, dest_path, fs[source])

\* ------------------------------------------------------------------ delete
\* Mutant of rmtree: only the first version's content is removed.
rmtree_first(f, file_name) == Restrict(f, DOMAIN f \ {StorePath(file_name, 1)})

\* Lines 116-118: shutil.rmtree(files/<file_name>) removes the whole subtree.
rmtree(f, file_name) == Restrict(f, DOMAIN f \ TreeFiles(f, file_name))

delete_file(file_name, fault) ==
  IF ~Has(metadata, file_name)
  THEN /\ result' = Failed("delete_file", "File not found")
       /\ UNCHANGED <<metadata, metadata_file, fs, dirs, clock, added, origin, nadds, deleted, began>>
  ELSE IF fault = "rmtree"
  THEN \* rmtree raised part-way: some of the subtree is gone, line 120 not reached
       /\ TreeDirs(dirs, file_name) # {}
       /\ \E gone \in SUBSET TreeFiles(fs, file_name) :
            fs' = Restrict(fs, DOMAIN fs \ gone)
       /\ result' = Raised("delete_file", "rmtree")
       /\ UNCHANGED <<metadata, metadata_file, dirs, clock, added, origin, nadds, deleted, began>>
  ELSE LET m1 == DelEntry(metadata, file_name)
       IN /\ fs' = rmtree(fs, file_name)
          /\ dirs' = dirs \ TreeDirs(dirs, file_name)
          /\ metadata' = m1
          /\ metadata_file' = save_metadata(m1, fault)
          /\ nadds' = [nadds EXCEPT ![file_name] = 0]
          /\ origin' = rmtree(origin, file_name)
          /\ IF SaveFails(fault)
             THEN /\ result' = Raised("delete_file", "save_metadata")
                  /\ UNCHANGED deleted
             ELSE /\ result' = Returned("delete_file", TRUE, "deleted",
                                        file_name, 0, NoPath)
                  /\ deleted' = [deleted EXCEPT ![file_name] = TRUE]
          /\ UNCHANGED <<clock, added, began>>

\* ------------------------------------------------------------------ environment
\* The user creates or rewrites a file outside the vault.
UserWrite(p, bytes) ==
  /\ IF exists(fs, p) THEN fs[p] # bytes ELSE TRUE
  /\ fs' = WriteFile(fs, p, bytes)
  /\ result' = Returned("user_write", TRUE, "", "", 0, NoPath)
  /\ UNCHANGED <<metadata, metadata_file, dirs, clock, added, origin, nadds, deleted, began>>

\* Something outside the engine removes a stored content file.
ExternalRemove(p) ==
  /\ exists(fs, p)
  /\ fs' = Restrict(fs, DOMAIN fs \ {p})
  /\ result' = Returned("external_remove", TRUE, "", "", 0, NoPath)
  /\ UNCHANGED <<metadata, metadata_file, dirs, clock, added, origin, nadds, deleted, began>>

\* ------------------------------------------------------------------ specification
\* DataVault() on an empty vault root: no document, no stored file.
Init ==
  /\ metadata = <<>>
  /\ metadata_file = [kind |-> "absent", doc |-> <<>>]
  /\ fs = [p \in {} |-> <<>>]
  /\ dirs = {}
  /\ clock = 0
  /\ result = Returned("init", TRUE, "", "", 0, NoPath)
  /\ added = <<>>
  /\ origin = [p \in {} |-> <<>>]
  /\ nadds = [n \in Names |-> 0]
  /\ deleted = [n \in Names |-> FALSE]
  /\ began = [n \in Names |-> ""]
  /\ faults = 0
  /\ up = TRUE
  /\ pc = [c \in Callers |-> Idle]
  /\ gui = NoGui

\* The vault is constructed and no call is in progress.
\* Whole: a call of the engine that runs from its first line to its last as
\* one step, outside the window.
Quiet == up /\ \A c \in Callers : pc[c] = Idle
Whole == Quiet /\ UNCHANGED <<up, pc, gui>>
NoFault == Whole /\ UNCHANGED faults
OneFault == Whole /\ faults < MaxFaults /\ faults' = faults + 1

Add == NoFault /\ \E p \in ExtPaths : add_file(p, "none")
Rollback == NoFault /\ \E n \in Names, i \in Indexes : rollback_version(n, i, "none")
Export == NoFault /\ \E n \in Names, p \in ExtPaths : export_file(n, p, "none")
Delete == NoFault /\ \E n \in Names : delete_file(n, "none")
Write == NoFault /\ \E p \in ExtPaths, b \in Contents : UserWrite(p, b)

\* One caller, one call at a time, every I/O step working.
Next == Add \/ Rollback \/ Export \/ Delete \/ Write
Spec == Init /\ [][Next]_vars

\* Every record of the catalog has its content in the store.
StoreIntact ==
  \A i \in 1..Len(metadata) :
    \A k \in 1..Len(metadata[i].versions) : exists(fs, metadata[i].versions[k].path)

Tamper ==
  /\ NoFault
  /\ StoreIntact
  /\ \E n \in Names, v \in 1..MaxAdds : ExternalRemove(StorePath(n, v))

\* The calls of Spec on a vault in which the content of one record at a time
\* may go missing.
NextTamper == Next \/ Tamper
SpecTamper == Init /\ [][NextTamper]_vars

AddFault ==
  OneFault /\ \E p \in ExtPaths, f \in {"copy"} \cup SaveFaults :
                exists(fs, p) /\ add_file(p, f)
RollbackFault ==
  OneFault /\ \E n \in Names, i \in Indexes, f \in SaveFaults :
                /\ Has(metadata, n)
                /\ IndexInRange(Entry(metadata, n).versions, i)
                /\ rollback_version(n, i, f)
ExportFault ==
  OneFault /\ \E n \in Names, p \in ExtPaths :
                Has(metadata, n) /\ export_file(n, p, "copy")
DeleteFault ==
  OneFault /\ \E n \in Names, f \in {"rmtree"} \cup SaveFaults :
                Has(metadata, n) /\ delete_file(n, f)

\* The same calls, each of which an I/O fault may interrupt.
NextFault == Next \/ AddFault \/ RollbackFault \/ ExportFault \/ DeleteFault
SpecFault == Init /\ [][NextFault]_vars

\* ------------------------------------------------------------------ properties
IsPrefix(s, t) == Len(s) <= Len(t) /\ SubSeq(t, 1, Len(s)) = s

\* Every entry of catalog m but file_name's is in catalog m2, unchanged.
OthersKept(m, m2, file_name) ==
  \A n \in Names \ {file_name} :
    Has(m, n) => Has(m2, n) /\ Entry(m2, n) = Entry(m, n)

\* C1: every entry's records carry the version numbers 1, 2, ..., n in list
\* order, n being the number of successful add_file calls for the name since
\* the entry was created.
C1_VersionsNumbered ==
  \A i \in 1..Len(metadata) :
    /\ Len(metadata[i].versions) = nadds[metadata[i].name]
    /\ \A k \in 1..Len(metadata[i].versions) : metadata[i].versions[k].version = k

\* An entry with three records whose pointer was rolled back before the last add.
C1_Witness ==
  \E n \in Names :
    /\ Has(metadata, n)
    /\ Len(Entry(metadata, n).versions) = 3
    /\ began[n] = "older"

\* C2: a successful add_file appends one record to the name's list, numbers it
\* (version count + 1) and points current_version at it, wherever the pointer
\* stood before; the older records stay.
C2_AddSelectsNewest ==
  [][\A p \in ExtPaths :
       (result'.op = "add_file" /\ result'.ok /\ add_file(p, "none")) =>
         /\ Has(metadata', p.name)
         /\ Len(get_versions(metadata', p.name))
              = Len(get_versions(metadata, p.name)) + 1
         /\ IsPrefix(get_versions(metadata, p.name), get_versions(metadata', p.name))
         /\ get_versions(metadata', p.name)[Len(get_versions(metadata, p.name)) + 1].version
              = Len(get_versions(metadata, p.name)) + 1
         /\ get_current_version_index(metadata', p.name)
              = Len(get_versions(metadata', p.name)) - 1]_vars

\* The add that has just succeeded began with the pointer on an older record.
C2_Witness ==
  /\ result.op = "add_file" /\ result.ok
  /\ began[result.name] = "older"
  /\ get_current_version_index(metadata, result.name) = 2

C4_RollbackMovesPointerOnly ==
  [][\A n \in Names, i \in Indexes :
       (/\ result'.op = "rollback_version"
        /\ Has(metadata, n)
        /\ 0 <= i /\ i < Len(get_versions(metadata, n))
        /\ rollback_version(n, i, "none")) =>
         /\ result'.ok /\ ~result'.raised
         /\ get_current_version_index(metadata', n) = i
         /\ get_versions(metadata', n) = get_versions(metadata, n)
         /\ get_file_list(metadata') = get_file_list(metadata)
         /\ OthersKept(metadata, metadata', n)
         /\ fs' = fs /\ dirs' = dirs
         /\ metadata_file'.kind = "json"
         /\ load_metadata' = metadata']_vars

\* A rollback to the first of three records has just succeeded.
C4_Witness ==
  /\ result.op = "rollback_version" /\ result.ok /\ result.num = 1
  /\ \E n \in Names :
       /\ get_current_version_index(metadata, n) = 0
       /\ Len(get_versions(metadata, n)) = 3

\* C5: rollback_version fails with 'File not found' for an unknown name and
\* with 'Invalid version index' for an index below 0 or at or above the version
\* count, changing nothing; the index version count - 1 is accepted.
C5_RollbackRejects ==
  [][\A n \in Names, i \in Indexes :
       /\ (/\ result'.op = "rollback_version"
           /\ ~Has(metadata, n)
           /\ rollback_version(n, i, "none")) =>
            /\ result' = Failed("rollback_version", "File not found")
            /\ UNCHANGED <<metadata, metadata_file, fs, dirs>>
       /\ (/\ result'.op = "rollback_version"
           /\ Has(metadata, n)
           /\ (i < 0 \/ i >= Len(get_versions(metadata, n)))
           /\ rollback_version(n, i, "none")) =>
            /\ result' = Failed("rollback_version", "Invalid version index")
            /\ UNCHANGED <<metadata, metadata_file, fs, dirs>>
       /\ (/\ result'.op = "rollback_version"
           /\ Has(metadata, n)
           /\ i >= 0
           /\ i = Len(get_versions(metadata, n)) - 1
           /\ rollback_version(n, i, "none")) =>
            result'.ok]_vars

\* A rollback has just been refused for its index while an entry with records
\* exists.
C5_Witness ==
  /\ result = Failed("rollback_version", "Invalid version index")
  /\ \E n \in Names : Len(get_versions(metadata, n)) = 2

\* The record current_version selects in file_name's entry of catalog m.
Pointed(m, file_name) ==
  Entry(m, file_name).versions[Entry(m, file_name).current_version + 1]

\* The 'path' values of file_name's records in catalog m.
RecordPaths(m, file_name) ==
  {get_versions(m, file_name)[k].path : k \in 1..Len(get_versions(m, file_name))}

\* C6: a successful export_file leaves at the destination the bytes the source
\* held at the add_file that created the record current_version selects, and
\* their fingerprint is that record's 'hash'.
C6_ExportRoundTrip ==
  [][\A n \in Names, d \in ExtPaths :
       (result'.op = "export_file" /\ result'.ok /\ export_file(n, d, "none")) =>
         /\ exists(fs', d)
         /\ fs'[d] = origin[Pointed(metadata, n).path]
         /\ calculate_hash(fs'[d]) = Pointed(metadata, n).hash
         /\ Len(fs'[d]) = Pointed(metadata, n).size]_vars

\* An export has just written the empty content of a record the pointer was
\* rolled back to, the newest record holding other bytes.
C6_Witness ==
  /\ result.op = "export_file" /\ result.ok
  /\ \E n \in Names :
       /\ Len(get_versions(metadata, n)) = 2
       /\ get_current_version_index(metadata, n) = 0
       /\ origin[Pointed(metadata, n).path] = <<>>
       /\ origin[get_versions(metadata, n)[2].path] = <<1, 2>>
       /\ exists(fs, result.path) /\ fs[result.path] = <<>>
       /\ result.path.name # n

\* C7: a successful delete_file takes the entry out of the catalog and the
\* content of each of its versions out of the store, and leaves every other
\* entry and every other file alone; export_file then fails for the name.
C7_DeleteRemovesEntry ==
  [][\A n \in Names :
       /\ (result'.op = "delete_file" /\ result'.ok /\ delete_file(n, "none")) =>
            /\ \A i \in 1..Len(get_file_list(metadata')) :
                 get_file_list(metadata')[i] # n
            /\ get_versions(metadata', n) = <<>>
            /\ get_current_version_index(metadata', n) = -1
            /\ \A p \in RecordPaths(metadata, n) : ~exists(fs', p)
            /\ TreeFiles(fs', n) = {}
            /\ OthersKept(metadata, metadata', n)
            /\ Len(metadata') = Len(metadata) - 1
            /\ \A p \in DOMAIN fs :
                 ~(p.root = "files" /\ p.name = n) => exists(fs', p) /\ fs'[p] = fs[p]
       /\ \A d \in ExtPaths :
            (/\ result'.op = "export_file"
             /\ ~Has(metadata, n)
             /\ export_file(n, d, "none")) =>
              /\ result' = Failed("export_file", "File not found")
              /\ fs' = fs]_vars

\* The two-version entry "a" has just been deleted while "b" stays, content
\* included.
C7_Witness ==
  /\ result.op = "delete_file" /\ result.ok /\ result.name = "a"
  /\ added = <<"a", "a", "b">>
  /\ ~Has(metadata, "a")
  /\ Has(metadata, "b")
  /\ exists(fs, Pointed(metadata, "b").path)

\* C8: the first successful add_file for a name after its delete_file makes a
\* new entry with the single record 1, pointed at by current_version 0, and the
\* store holds for the name nothing but the content just copied.
C8_ReAddStartsAtOne ==
  [][\A p \in ExtPaths :
       (/\ result'.op = "add_file" /\ result'.ok
        /\ deleted[p.name]
        /\ add_file(p, "none")) =>
         /\ Has(metadata', p.name)
         /\ Len(get_versions(metadata', p.name)) = 1
         /\ get_versions(metadata', p.name)[1].version = 1
         /\ get_versions(metadata', p.name)[1].timestamp = clock'
         /\ get_current_version_index(metadata', p.name) = 0
         /\ result'.num = 1
         /\ TreeFiles(fs', p.name) = {get_versions(metadata', p.name)[1].path}
         /\ fs'[get_versions(metadata', p.name)[1].path] = fs[p]]_vars

\* "a" was added twice, deleted, and has just been added again.
C8_Witness ==
  /\ result.op = "add_file" /\ result.ok /\ result.name = "a"
  /\ began["a"] = "deleted"
  /\ added = <<"a", "a", "a">>
  /\ Len(get_versions(metadata, "a")) = 1

\* C9: add_file on a missing source, delete_file and export_file on an unknown
\* name, and export_file on a record whose content is missing from the store
\* each return (False, message) and change neither the catalog, nor the
\* persisted document, nor any file.
C9_FailuresChangeNothing ==
  [][/\ \A p \in ExtPaths :
          (result'.op = "add_file" /\ ~exists(fs, p) /\ add_file(p, "none")) =>
            /\ result' = Failed("add_file", "File does not exist")
            /\ UNCHANGED <<metadata, metadata_file, fs, dirs>>
     /\ \A n \in Names :
          (/\ result'.op = "delete_file"
           /\ ~Has(metadata, n)
           /\ delete_file(n, "none")) =>
            /\ result' = Failed("delete_file", "File not found")
            /\ UNCHANGED <<metadata, metadata_file, fs, dirs>>
     /\ \A n \in Names, d \in ExtPaths :
          (/\ result'.op = "export_file"
           /\ ~Has(metadata, n)
           /\ export_file(n, d, "none")) =>
            /\ result' = Failed("export_file", "File not found")
            /\ UNCHANGED <<metadata, metadata_file, fs, dirs>>
     /\ \A n \in Names, d \in ExtPaths :
          (/\ result'.op = "export_file"
           /\ Has(metadata, n)
           /\ PyValid(get_versions(metadata, n), get_current_version_index(metadata, n))
           /\ ~exists(fs, Pointed(metadata, n).path)
           /\ export_file(n, d, "none")) =>
            /\ result' = Failed("export_file", "Source file not found")
            /\ UNCHANGED <<metadata, metadata_file, fs, dirs>>]_vars

\* An export has just been refused because the current record's content is gone.
C9_Witness ==
  /\ result = Failed("export_file", "Source file not found")
  /\ \E n \in Names :
       /\ Has(metadata, n)
       /\ ~exists(fs, Pointed(metadata, n).path)

\* C10: over any one step, the records of a name that keeps its entry are a
\* prefix of its records afterwards, and an entry goes away only by a
\* delete_file of its name.
C10_VersionsAppendOnly ==
  [][\A n \in Names :
       /\ (Has(metadata, n) /\ Has(metadata', n)) =>
            IsPrefix(get_versions(metadata, n), get_versions(metadata', n))
       /\ (Has(metadata, n) /\ ~Has(metadata', n)) =>
            /\ result'.op = "delete_file"
            /\ result'.name = n]_vars

\* An entry has grown to three records although its pointer had been rolled
\* back, and points at the first again.
C10_Witness ==
  \E n \in Names :
    /\ Len(get_versions(metadata, n)) = 3
    /\ began[n] = "older"
    /\ get_current_version_index(metadata, n) = 0

\* ------------------------------------------------------------------ any path
\* The paths of the content store.
StorePaths == {StorePath(n, v) : n \in Names, v \in 1..MaxAdds}

\* add_file takes any path as its source, a stored file included.
AddStored == NoFault /\ \E p \in StorePaths : add_file(p, "none")
\* export_file takes any path as its destination (line 108 copies to whatever
\* dest_path names), a path inside the content store included.
ExportInto == NoFault /\ \E n \in Names, p \in StorePaths : export_file(n, p, "none")

\* The calls of Spec, with sources and destinations inside the vault as well.
NextDest == Next \/ AddStored \/ ExportInto
SpecDest == Init /\ [][NextDest]_vars

\* C11: over any one step, the stored bytes of a record that stays in the
\* catalog are neither changed nor removed, whatever source add_file and
\* whatever destination export_file is given; and no two records of the
\* catalog share a storage path.
C11_StoredContentImmutable ==
  [][/\ \A n \in Names :
          (Has(metadata, n) /\ Has(metadata', n)) =>
            \A k \in 1..Len(get_versions(metadata, n)) :
              LET p == get_versions(metadata, n)[k].path
              IN (exists(fs, p) /\ k <= Len(get_versions(metadata', n))) =>
                   /\ exists(fs', p)
                   /\ fs'[p] = fs[p]
     /\ \A i, j \in 1..Len(metadata') :
          \A k \in 1..Len(metadata'[i].versions), l \in 1..Len(metadata'[j].versions) :
            metadata'[i].versions[k].path = metadata'[j].versions[l].path =>
              i = j /\ k = l]_vars

\* ------------------------------------------------------------------ construction
\* Lines 11-17: DataVault(). load_metadata (lines 19-23) hands back {} when
\* there is no document and what json.load makes of it otherwise; json.load
\* raises on a document that is not JSON and then no object comes to exist.
\* The object replaces the one the program held, calls in progress included.
construct ==
  /\ pc' = [c \in Callers |-> Idle]
  /\ IF metadata_file.kind = "truncated"
     THEN /\ up' = FALSE
          /\ metadata' = <<>>
          /\ result' = Raised("__init__", "JSONDecodeError")
     ELSE /\ up' = TRUE
          /\ metadata' = load_metadata
          /\ result' = Returned("__init__", TRUE, "", "", 0, NoPath)
  /\ UNCHANGED <<metadata_file, fs, dirs, clock, added, origin, nadds, deleted,
                 began, faults, gui>>

\* The program is started again on the vault it left.
Restart == up /\ construct

\* The calls that write the catalog, and a restart between any two of them.
NextRestart == Add \/ Rollback \/ Delete \/ Write \/ Restart
SpecRestart == Init /\ [][NextRestart]_vars

\* Sequence s without its element x.
Without(s, x) == SelectSeq(s, LAMBDA y : y # x)

\* C12: get_file_list is the names of the entries in the order of the add_file
\* calls that created them: it is empty for the empty catalog, an add of a new
\* name puts the name at the end (a deleted and re-added name too), a delete
\* takes its name out, no other call changes the list, and a catalog loaded
\* from the saved document lists the same names in the same order.
C12_FileListOrder ==
  [][LET old == get_file_list(metadata)
         new == get_file_list(metadata')
     IN /\ metadata = <<>> => old = <<>>
        /\ Len(old) = Len(metadata)
        /\ IF result'.op = "add_file" /\ result'.ok /\ ~Has(metadata, result'.name)
           THEN new = Append(old, result'.name)
           ELSE IF result'.op = "delete_file" /\ result'.ok
           THEN new = Without(old, result'.name)
           ELSE new = old]_vars

\* A catalog has just been loaded in which the name created first was deleted
\* and added again, and is now listed after the name created second.
C12_Witness ==
  /\ result.op = "__init__"
  /\ get_file_list(metadata) = <<"b", "a">>
  /\ added[1] = "a"
  /\ began["a"] = "deleted"
  /\ Len(get_versions(metadata, "b")) = 1

\* ------------------------------------------------------------------ first start
\* The documents a vault directory may hold before the program starts: none,
\* the empty catalog, text that is not JSON, and the JSON object {"zz": 0},
\* whose one member is no entry {name, versions, current_version}.
NotJson == [kind |-> "truncated", doc |-> <<>>]
WrongShape == [kind |-> "json", doc |-> <<[key |-> "zz", value |-> [other |-> 0]]>>]
Documents ==
  {[kind |-> "absent", doc |-> <<>>], [kind |-> "json", doc |-> <<>>],
   NotJson, WrongShape}

\* The document cannot be parsed into the schema of the catalog.
Corrupt(document) ==
  \/ document.kind = "truncated"
  \/ /\ document.kind = "json"
     /\ \E i \in 1..Len(document.doc) : "versions" \notin DOMAIN document.doc[i].value

\* No DataVault object yet, and any of the documents on disk.
InitBoot ==
  /\ metadata_file \in Documents
  /\ up = FALSE
  /\ metadata = <<>>
  /\ fs = [p \in {} |-> <<>>]
  /\ dirs = {}
  /\ clock = 0
  /\ result = Returned("", TRUE, "", "", 0, NoPath)
  /\ added = <<>>
  /\ origin = [p \in {} |-> <<>>]
  /\ nadds = [n \in Names |-> 0]
  /\ deleted = [n \in Names |-> FALSE]
  /\ began = [n \in Names |-> ""]
  /\ faults = 0
  /\ pc = [c \in Callers |-> Idle]
  /\ gui = NoGui

\* DataVault() while there is no object.
Boot == ~up /\ construct

\* The program started on any of the documents, then the calls that write the
\* catalog.
NextBoot == Boot \/ Add \/ Rollback \/ Delete \/ Write
SpecBoot == InitBoot /\ [][NextBoot]_vars

\* C13: while the document on disk cannot be parsed into the schema, no
\* DataVault object comes to exist (the constructor fails) and no step
\* discards or overwrites the document.
C13_CorruptDocumentKept ==
  [][Corrupt(metadata_file) => (~up' /\ metadata_file' = metadata_file)]_vars

\* C14: an add_file or delete_file that an I/O fault aborts (the copy of the
\* content, the removal of the content tree, the writing of the document)
\* leaves the in-memory catalog exactly as it was before the call.
C14_AbortedCallKeepsCatalog ==
  [][(result'.raised /\ result'.op \in {"add_file", "delete_file"}) =>
       metadata' = metadata]_vars

\* ------------------------------------------------------------------ steps
\* The calls add_file and delete_file as the sequence of steps their code
\* takes, so that a crash or another caller can come between two steps. The
\* history variables added, nadds, deleted and began record whole calls only.

\* Mutant of add_file_order: the record is appended and the document written
\* before the content is copied.
add_file_order_persist_first == <<"append", "open", "dump", "copy", "return">>

\* add_file after its first lines (30-45): copy the content (47-50), append
\* the record and move the pointer (52-61), save_metadata (62: open the
\* document for writing, which truncates it, then dump the catalog), return
\* (64).
add_file_order == <<"copy", "append", "open", "dump", "return">>

\* delete_file after its check (113-114): remove the content tree (116-118),
\* remove the entry (120), save_metadata (121), return (122).
delete_file_order == <<"rmtree", "del", "open", "dump", "return">>

Order(op) == IF op = "add_file" THEN add_file_order ELSE delete_file_order
\* The step that follows step at.
After(order, at) == order[(CHOOSE i \in 1..Len(order) : order[i] = at) + 1]
\* Caller c is at step at of a call of op.
At(c, op, at) == up /\ pc[c].op = op /\ pc[c].at = at
\* Caller c moves on to its next step.
Advance(c) == pc' = [pc EXCEPT ![c].at = After(Order(pc[c].op), pc[c].at)]
\* Caller c enters a call: it is alone when no other caller is in one, and a
\* caller that is in one is alone no longer.
Enter(c, frame) ==
  pc' = [d \in Callers |->
           IF d = c THEN [frame EXCEPT !.alone = \A e \in Callers \ {c} : pc[e] = Idle]
           ELSE IF pc[d] = Idle THEN pc[d]
           ELSE [pc[d] EXCEPT !.alone = FALSE]]

\* Lines 30-45 for a source that exists: hash, timestamp, the entry for a new
\* name, the next version number.
add_begin(c, source_path) ==
  LET file_name == source_path.name
      m1 == EnsureEntry(metadata, file_name)
  IN /\ up
     /\ pc[c] = Idle
     /\ exists(fs, source_path)
     /\ clock < MaxAdds
     /\ clock' = clock + 1
     /\ metadata' = m1
     /\ Enter(c, [op |-> "add_file", at |-> add_file_order[1], name |-> file_name,
                  src |-> source_path, bytes |-> fs[source_path],
                  num |-> version_num(m1, file_name), timestamp |-> clock + 1,
                  alone |-> TRUE])
     /\ UNCHANGED <<metadata_file, fs, dirs, result, added, origin, nadds, deleted,
                    began, faults, up, gui>>

\* Lines 47-50: mkdir and shutil.copy2.
add_copy(c) ==
  LET dest == StorePath(pc[c].name, pc[c].num)
  IN /\ At(c, "add_file", "copy")
     /\ dirs' = dirs \cup {dest}
     /\ fs' = WriteFile(fs, dest, fs[pc[c].src])
     /\ origin' = WriteFile(origin, dest, fs[pc[c].src])
     /\ Advance(c)
     /\ UNCHANGED <<metadata, metadata_file, clock, result, added, nadds, deleted,
                    began, faults, up, gui>>

\* Lines 52-61; self.metadata[file_name] raises KeyError when the entry has
\* gone meanwhile.
add_append(c) ==
  LET file_name == pc[c].name
      info == [version_info(pc[c].num, pc[c].timestamp, pc[c].bytes,
                            StorePath(file_name, pc[c].num))
                 EXCEPT !.size = Len(fs[pc[c].src])]
  IN /\ At(c, "add_file", "append")
     /\ IF Has(metadata, file_name)
        THEN /\ metadata' = AppendVersion(metadata, file_name, info, pc[c].num)
             /\ Advance(c)
             /\ UNCHANGED result
        ELSE /\ result' = Raised("add_file", "KeyError")
             /\ pc' = [pc EXCEPT ![c] = Idle]
             /\ UNCHANGED metadata
     /\ UNCHANGED <<metadata_file, fs, dirs, clock, added, origin, nadds, deleted,
                    began, faults, up, gui>>

\* Lines 113-114 for a name that is in the catalog.
delete_begin(c, file_name) ==
  /\ up
  /\ pc[c] = Idle
  /\ Has(metadata, file_name)
  /\ Enter(c, [Idle EXCEPT !.op = "delete_file", !.at = delete_file_order[1],
                           !.name = file_name])
  /\ UNCHANGED <<metadata, metadata_file, fs, dirs, clock, result, added, origin,
                 nadds, deleted, began, faults, up, gui>>

\* Lines 116-118.
delete_rmtree(c) ==
  /\ At(c, "delete_file", "rmtree")
  /\ fs' = rmtree(fs, pc[c].name)
  /\ origin' = rmtree(origin, pc[c].name)
  /\ dirs' = dirs \ TreeDirs(dirs, pc[c].name)
  /\ Advance(c)
  /\ UNCHANGED <<metadata, metadata_file, clock, result, added, nadds, deleted,
                 began, faults, up, gui>>

\* Line 120.
delete_del(c) ==
  /\ At(c, "delete_file", "del")
  /\ IF Has(metadata, pc[c].name)
     THEN /\ metadata' = DelEntry(metadata, pc[c].name)
          /\ Advance(c)
          /\ UNCHANGED result
     ELSE /\ result' = Raised("delete_file", "KeyError")
          /\ pc' = [pc EXCEPT ![c] = Idle]
          /\ UNCHANGED metadata
  /\ UNCHANGED <<metadata_file, fs, dirs, clock, added, origin, nadds, deleted,
                 began, faults, up, gui>>

\* Line 26: open(self.metadata_file, 'w') leaves an empty document.
save_open(c) ==
  /\ up
  /\ pc[c].at = "open"
  /\ metadata_file' = save_metadata(metadata, "save_write")
  /\ Advance(c)
  /\ UNCHANGED <<metadata, fs, dirs, clock, result, added, origin, nadds, deleted,
                 began, faults, up, gui>>

\* Line 27: json.dump writes the catalog as it is now.
save_dump(c) ==
  /\ up
  /\ pc[c].at = "dump"
  /\ metadata_file' = save_metadata(metadata, "none")
  /\ Advance(c)
  /\ UNCHANGED <<metadata, fs, dirs, clock, result, added, origin, nadds, deleted,
                 began, faults, up, gui>>

\* Lines 64 and 122.
call_return(c) ==
  /\ up
  /\ pc[c].at = "return"
  /\ result' = IF pc[c].op = "add_file"
               THEN Returned("add_file", TRUE, "added as version", pc[c].name,
                             pc[c].num, NoPath)
               ELSE Returned("delete_file", TRUE, "deleted", pc[c].name, 0, NoPath)
  /\ pc' = [pc EXCEPT ![c] = Idle]
  /\ UNCHANGED <<metadata, metadata_file, fs, dirs, clock, added, origin, nadds,
                 deleted, began, faults, up, gui>>

\* The process is killed between two steps: the object and its calls are
\* gone, the disk stays as it is.
crash ==
  /\ up
  /\ up' = FALSE
  /\ metadata' = <<>>
  /\ pc' = [c \in Callers |-> Idle]
  /\ result' = Raised("", "killed")
  /\ UNCHANGED <<metadata_file, fs, dirs, clock, added, origin, nadds, deleted,
                 began, faults, gui>>

\* The process is killed while caller c's copy is under way: the destination
\* is left partly written.
crash_in_copy(c) ==
  /\ At(c, "add_file", "copy")
  /\ up' = FALSE
  /\ metadata' = <<>>
  /\ pc' = [d \in Callers |-> Idle]
  /\ result' = Raised("", "killed")
  /\ dirs' = dirs \cup {StorePath(pc[c].name, pc[c].num)}
  /\ fs' = WriteFile(fs, StorePath(pc[c].name, pc[c].num), <<>>)
  /\ UNCHANGED <<metadata_file, clock, added, origin, nadds, deleted, began,
                 faults, gui>>

\* ------------------------------------------------------------------ add_file and a crash
\* The caller of the single-threaded program.
MainThread == {c \in Callers : \A d \in Callers : c <= d}

AddBegin == \E c \in MainThread, p \in ExtPaths : add_begin(c, p)
AddCopy == \E c \in MainThread : add_copy(c)
AddAppend == \E c \in MainThread : add_append(c)
SaveOpen == \E c \in MainThread : save_open(c)
SaveDump == \E c \in MainThread : save_dump(c)
Return == \E c \in MainThread : call_return(c)
Crash == crash
CrashInCopy == \E c \in MainThread : crash_in_copy(c)

\* add_file step by step with a crash possible before and after every step,
\* among whole rollback_version and delete_file calls; after a crash the
\* program is started again.
NextAddCrash ==
  \/ Write \/ Rollback \/ Delete
  \/ AddBegin \/ AddCopy \/ AddAppend \/ SaveOpen \/ SaveDump \/ Return
  \/ Crash \/ CrashInCopy \/ Boot
SpecAddCrash == Init /\ [][NextAddCrash]_vars

\* The records the document on disk lists.
PersistedRecords ==
  IF metadata_file.kind # "json" THEN {}
  ELSE UNION {{load_metadata[i].versions[k] : k \in 1..Len(load_metadata[i].versions)} :
                i \in 1..Len(load_metadata)}

\* The document on disk lists version num of file_name.
Persisted(file_name, num) ==
  /\ metadata_file.kind = "json"
  /\ Has(load_metadata, file_name)
  /\ \E k \in 1..Len(Entry(load_metadata, file_name).versions) :
       Entry(load_metadata, file_name).versions[k].version = num

\* C15: add_file copies the content, then appends the record, then writes the
\* document, then returns. Wherever a crash falls, every record the document
\* lists has its content in the store, completely written (the bytes the copy
\* read from the source), and an add_file returns success only when the
\* document lists its new record.
C15_AddOrdering ==
  [][/\ \A r \in PersistedRecords' :
          /\ exists(fs', r.path)
          /\ exists(origin', r.path)
          /\ fs'[r.path] = origin'[r.path]
     /\ \A c \in Callers :
          (pc[c].op = "add_file" /\ pc[c].at = "return" /\ pc'[c] = Idle /\ up') =>
            /\ result' = Returned("add_file", TRUE, "added as version", pc[c].name,
                                  pc[c].num, NoPath)
            /\ Persisted(result.name, result.num)']_vars

\* The process was killed after the copy of a second version and before its
\* record was written: the content is in the store, complete, and the
\* document lists the first version only.
C15_Witness ==
  /\ ~up
  /\ \E n \in Names :
       /\ Persisted(n, 1)
       /\ ~Persisted(n, 2)
       /\ exists(fs, StorePath(n, 2))
       /\ fs[StorePath(n, 2)] = <<1, 2>>
       /\ fs[StorePath(n, 1)] = <<>>

\* ------------------------------------------------------------------ delete_file and a crash
DeleteBegin == \E c \in MainThread, n \in Names : delete_begin(c, n)
DeleteRmtree == \E c \in MainThread : delete_rmtree(c)
DeleteDel == \E c \in MainThread : delete_del(c)

\* delete_file step by step with a crash possible before and after every
\* step, among whole add_file calls; after a crash the program is started
\* again.
NextDeleteCrash ==
  \/ Write \/ Add
  \/ DeleteBegin \/ DeleteRmtree \/ DeleteDel \/ SaveOpen \/ SaveDump \/ Return
  \/ Crash \/ Boot
SpecDeleteCrash == Init /\ [][NextDeleteCrash]_vars

\* The document on disk has an entry for file_name.
EntryPersisted(file_name) ==
  metadata_file.kind = "json" /\ Has(load_metadata, file_name)

\* C16: at every point of a delete_file call, where a crash may fall, the
\* document and the content store agree about the call's name: either the
\* document has the entry and the content of every one of its records is
\* stored, or the document has no entry and nothing is stored under the name.
C16_DeleteAtomic ==
  \A c \in Callers :
    pc[c].op = "delete_file" =>
      \/ /\ EntryPersisted(pc[c].name)
         /\ \A k \in 1..Len(Entry(load_metadata, pc[c].name).versions) :
              exists(fs, Entry(load_metadata, pc[c].name).versions[k].path)
      \/ /\ ~EntryPersisted(pc[c].name)
         /\ TreeFiles(fs, pc[c].name) = {}

\* C17: save_metadata is all-or-nothing: when the process is killed while the
\* document is being written, the document on disk is a complete catalog (the
\* one before the call or the new one), never an empty or truncated text.
C17_SaveAllOrNothing == ~up => metadata_file.kind # "truncated"

\* The calls of the engine that hand a result back.
EngineCalls == {"add_file", "rollback_version", "export_file", "delete_file"}

\* C18: after every call of the engine that returns a result, success or
\* failure, the document on disk holds the in-memory catalog: a DataVault
\* constructed at that point loads the same catalog.
C18_DocumentMatchesCatalog ==
  (result.op \in EngineCalls /\ ~result.raised) =>
    /\ metadata_file.kind # "truncated"
    /\ load_metadata = metadata

\* ------------------------------------------------------------------ two callers
AnyBegin == \E c \in Callers, p \in ExtPaths : add_begin(c, p)
AnyCopy == \E c \in Callers : add_copy(c)
AnyAppend == \E c \in Callers : add_append(c)
AnyOpen == \E c \in Callers : save_open(c)
AnyDump == \E c \in Callers : save_dump(c)
AnyReturn == \E c \in Callers : call_return(c)

\* add_file called from two threads on one DataVault object, which takes no
\* lock: the steps of the two calls interleave in any order.
NextRace == Write \/ AnyBegin \/ AnyCopy \/ AnyAppend \/ AnyOpen \/ AnyDump \/ AnyReturn
SpecRace == Init /\ [][NextRace]_vars

\* No entry of catalog m has two records with one version number or one path.
NoTwins(m) ==
  \A i \in 1..Len(m) :
    \A k, l \in 1..Len(m[i].versions) :
      (\/ m[i].versions[k].version = m[i].versions[l].version
       \/ m[i].versions[k].path = m[i].versions[l].path) => k = l

\* C19: nothing excludes two add_file calls from one another, and two that
\* overlap can leave an entry with two records of one version number and one
\* path; a call that runs with no other call overlapping it never does: the
\* record it appends has a number and a path no other record of the entry has.
C19_TwinsOnlyByOverlap ==
  [][\A c \in Callers :
       (pc[c].op = "add_file" /\ pc[c].at = "append" /\ pc'[c].at # "append"
        /\ pc[c].alone /\ NoTwins(metadata)) => NoTwins(metadata')]_vars

\* Two overlapping calls for one name have both returned success, and the
\* entry holds two records with version number 1 and one storage path.
C19_Witness ==
  /\ \A c \in Callers : pc[c] = Idle
  /\ result.op = "add_file" /\ result.ok
  /\ \E n \in Names :
       /\ Has(metadata, n)
       /\ Len(Entry(metadata, n).versions) = 2
       /\ Entry(metadata, n).versions[1].version = 1
       /\ Entry(metadata, n).versions[2].version = 1
       /\ Entry(metadata, n).versions[1].path = Entry(metadata, n).versions[2].path
       /\ load_metadata = metadata

\* ------------------------------------------------------------------ GUI
\* Texts are sequences of characters. The file names the user may upload: the
\* texts of a letter, the space and the opening parenthesis that begin with
\* the letter.
Chars == {"r", " ", "("}
GuiNames == {t \in UNION {[1..k -> Chars] : k \in 1..MaxNameLen} : t[1] = "r"}

DigitChars == <<"0", "1", "2", "3", "4", "5", "6", "7", "8", "9">>
\* str(n) for n >= 0.
RECURSIVE str(_)
str(n) ==
  IF n < 10 THEN <<DigitChars[n + 1]>>
  ELSE str(n \div 10) \o <<DigitChars[(n % 10) + 1]>>

\* Line 233: f"{file_name} ({len(versions)} versions)".
RowText(file_name, count) ==
  file_name \o <<" ", "(">> \o str(count)
            \o <<" ", "v", "e", "r", "s", "i", "o", "n", "s", ")">>

\* Lines 228-233: one row per name of get_file_list, in its order.
refresh_file_list(m) ==
  [i \in 1..Len(m) |-> RowText(get_file_list(m)[i], Len(get_versions(m, get_file_list(m)[i])))]

\* The places where sep occurs in text.
Occurrences(text, sep) ==
  {i \in 1..(Len(text) - Len(sep) + 1) : SubSeq(text, i, i + Len(sep) - 1) = sep}
\* text.split(sep)[0]: the text before the first occurrence of sep, all of
\* the text when there is none.
SplitHead(text, sep) ==
  IF Occurrences(text, sep) = {} THEN text
  ELSE SubSeq(text, 1, (CHOOSE i \in Occurrences(text, sep) :
                          \A j \in Occurrences(text, sep) : i <= j) - 1)

\* The handlers of the window return nothing: result names the handler that
\* ran, and for the Delete button whether an entry was deleted.

\* Lines 306-320: upload_file. The dialog hands back an existing file, here
\* one named file_name holding bytes; add_file stores it (lines 34-64) and
\* the list is refreshed.
upload_file(file_name, bytes) ==
  LET m1 == EnsureEntry(metadata, file_name)
      num == version_num(m1, file_name)
      dest == StorePath(file_name, num)
      m2 == AppendVersion(m1, file_name, version_info(num, clock + 1, bytes, dest), num)
  IN /\ Quiet
     /\ clock < MaxAdds
     /\ clock' = clock + 1
     /\ added' = Append(added, file_name)
     /\ dirs' = dirs \cup {dest}
     /\ fs' = WriteFile(fs, dest, bytes)
     /\ origin' = WriteFile(origin, dest, bytes)
     /\ metadata' = m2
     /\ metadata_file' = save_metadata(m2, "none")
     /\ result' = Returned("upload_file", TRUE, "", "", 0, NoPath)
     /\ gui' = [gui EXCEPT !.listbox = refresh_file_list(m2)]
     /\ UNCHANGED <<nadds, deleted, began, faults, up, pc>>

\* Lines 235-243: the user clicks row index of the list box.
on_file_select(index) ==
  /\ Quiet
  /\ index \in 1..Len(gui.listbox)
  /\ gui' = [gui EXCEPT !.row = index,
                        !.selected_file = SplitHead(gui.listbox[index], <<" ", "(">>)]
  /\ result' = Returned("on_file_select", TRUE, "", "", 0, NoPath)
  /\ UNCHANGED <<metadata, metadata_file, fs, dirs, clock, added, origin, nadds,
                 deleted, began, faults, up, pc>>

\* Lines 343-363: the Delete button, the question answered with yes.
gui_delete_file ==
  /\ Quiet
  /\ IF gui.selected_file = <<>>
     THEN /\ result' = Failed("gui_delete_file", "")
          /\ UNCHANGED <<metadata, metadata_file, fs, dirs, origin, gui>>
     ELSE IF ~Has(metadata, gui.selected_file)
     THEN /\ result' = Failed("gui_delete_file", "")
          /\ UNCHANGED <<metadata, metadata_file, fs, dirs, origin, gui>>
     ELSE LET m1 == DelEntry(metadata, gui.selected_file)
          IN /\ fs' = rmtree(fs, gui.selected_file)
             /\ origin' = rmtree(origin, gui.selected_file)
             /\ dirs' = dirs \ TreeDirs(dirs, gui.selected_file)
             /\ metadata' = m1
             /\ metadata_file' = save_metadata(m1, "none")
             /\ result' = Returned("gui_delete_file", TRUE, "", "", 0, NoPath)
             /\ gui' = [listbox |-> refresh_file_list(m1), row |-> 0,
                        selected_file |-> <<>>]
  /\ UNCHANGED <<clock, added, nadds, deleted, began, faults, up, pc>>

Upload == \E n \in GuiNames : upload_file(n, <<>>)
Select == \E i \in 1..MaxAdds : on_file_select(i)
GuiDelete == gui_delete_file

\* The window: uploads, clicks on rows, the Delete button.
NextGui == Upload \/ Select \/ GuiDelete
SpecGui == Init /\ [][NextGui]_vars

\* C20: a click on a row makes selected_file the name of the entry shown on
\* that row, whatever the name (one that contains " (" too), and a delete
\* that follows removes that entry and no other.
C20_SelectionIsClickedName ==
  [][/\ result'.op = "on_file_select" =>
          gui'.selected_file = get_file_list(metadata')[gui'.row]
     /\ (result'.op = "gui_delete_file" /\ result'.ok) =>
          get_file_list(metadata') =
            Without(get_file_list(metadata), get_file_list(metadata)[gui.row])]_vars

====
